---- MODULE Spec2Model ----
(***************************************************************************)
(* TransferPilot transfer engine: src-tauri/src/transfer.rs                *)
(* (start_transfer, copy_file_streamed, unique_dest_path, scan_entries,    *)
(* preflight_scan) and the cancel flag commands of src-tauri/src/main.rs.  *)
(*                                                                         *)
(* One run of the start_transfer command is modelled statement block by    *)
(* statement block (pc), with the file system as a map from paths to file  *)
(* contents, the cancel flag written concurrently by cancel_transfer, and  *)
(* every fallible file system call failing nondeterministically.           *)
(***************************************************************************)
EXTENDS Integers, Sequences, FiniteSets, TLC

(* ------------------------------ bounds --------------------------------- *)

\* longest list of picked items handed to start_transfer
MaxItems == 2

\* width of the rename search window of unique_dest_path (9999 in the source)
RenameLimit == 2

\* most file system faults (failed calls, damaged copies) injected into one run
MaxFaults == 1

\* most chunk-loop progress events of one run (the 120 ms throttle elapsing)
MaxEmits == 1

\* largest "Available" figure (in KiB) `df -k` prints for the destination mount
MaxAvailKb == 1

(* ------------------------------- paths --------------------------------- *)

\* A path: root ("src" = a user location, "dst" = the session directory),
\* parent directory components, file stem, rename suffix number (0 = none),
\* extension ("" = none).
Path(root, parent, stem, num, ext) ==
  [root |-> root, parent |-> parent, stem |-> stem, num |-> num, ext |-> ext]

NoPath == Path("", <<>>, "", 0, "")

\* the user's files: two loose files with the same file name in different
\* folders, and one zero-byte file without extension
SrcD1X == Path("src", <<"d1">>, "x", 0, "txt")
SrcD2X == Path("src", <<"d2">>, "x", 0, "txt")
SrcD1Y == Path("src", <<"d1">>, "y", 0, "")
SrcPaths == {SrcD1X, SrcD2X, SrcD1Y}

\* contents are sequences of chunks (one chunk = one read of the 1 MiB buffer)
SrcData(p) ==
  IF p = SrcD1X THEN <<"x1a", "x1b">>
  ELSE IF p = SrcD2X THEN <<"x2a">>
  ELSE <<>>

\* content of a file found in the session directory before the run
OldData == <<"old">>

\* a chunk damaged on the destination medium
BadChunk == "bad"

DstParents == {<<"Files">>, <<"Folders", "d1">>}

DstPaths ==
  { Path("dst", par, st[1], n, st[2]) :
      par \in DstParents, st \in {<<"x", "txt">>, <<"y", "">>}, n \in 0..RenameLimit }

AllPaths == SrcPaths \cup DstPaths

File(data) == [exists |-> TRUE, data |-> data]
Absent == [exists |-> FALSE, data |-> <<>>]

\* Path::exists / Path::is_file
Exists(f, p) == f[p].exists

\* the destinations a run of the same second may have left behind
PreFamily == { Path("dst", <<"Files">>, "x", n, "txt") : n \in 0..RenameLimit }

\* nothing, or the colliding file and any of its renamed siblings
PreSets ==
  {{}} \cup { {Path("dst", <<"Files">>, "x", 0, "txt")} \cup S : S \in SUBSET PreFamily }

(* ------------------------------ requests ------------------------------- *)

PickedItem(kind, path) == [kind |-> kind, path |-> path]

\* a folder pick is identified by its directory components
PickMenu ==
  { PickedItem("file", SrcD1X), PickedItem("file", SrcD2X),
    PickedItem("folder", Path("src", <<>>, "d1", 0, "")) }

CopyModes == {"copy", "move"}
ConflictPolicies == {"overwrite", "skip", "rename", "other"}
VerifyModes == {"none", "size", "sha256"}

RECURSIVE SeqsUpTo(_, _)
SeqsUpTo(S, n) ==
  IF n = 0 THEN {<<>>}
  ELSE LET shorter == SeqsUpTo(S, n - 1)
       IN shorter \cup { Append(s, x) : s \in { t \in shorter : Len(t) = n - 1 }, x \in S }

(* --------------------------- pure functions ---------------------------- *)

Min(a, b) == IF a < b THEN a ELSE b
Max(a, b) == IF a > b THEN a ELSE b

\* (mutant) the percentage of the bytes still to do
pct_left(done, total) ==
  IF total = 0 THEN 0 ELSE Max(0, Min(100, ((total - done) * 100) \div total))

\* pct: percentage of bytes done, clamped to 0..100 (whole percents)
pct(done, total) ==
  IF total = 0 THEN 0 ELSE Max(0, Min(100, (done * 100) \div total))

\* fs::metadata(p).len()
FileLen(f, p) == Len(f[p].data)

\* (mutant) a source that cannot be read counts as an empty file
metadata_failed_never(f, p, io) == FALSE

\* whether fs::metadata(p) returns Err: the call fails, or the file is gone
metadata_failed(f, p, io) == io # "ok" \/ ~Exists(f, p)

\* WalkDir over a picked folder: the regular files below it, in walk order
WalkFiles(f, dir) ==
  SelectSeq(<<SrcD1X, SrcD1Y>>, LAMBDA p : p.parent = <<dir.stem>> /\ Exists(f, p))

FileEntry(src, rel) == [src |-> src, folder_rel |-> rel]

\* folder_rel of a file found below a folder pick: <folder_basename>/<relative path>
FolderRel(p) == <<Path("rel", p.parent, p.stem, 0, p.ext)>>

\* the entries one picked item expands to
ItemEntries(f, it) ==
  IF it.kind = "file"
  THEN IF Exists(f, it.path) THEN <<FileEntry(it.path, <<>>)>> ELSE <<>>
  ELSE LET files == WalkFiles(f, it.path)
       IN [k \in 1..Len(files) |-> FileEntry(files[k], FolderRel(files[k]))]

RECURSIVE scan_entries(_, _)
scan_entries(f, its) ==
  IF its = <<>> THEN <<>>
  ELSE ItemEntries(f, Head(its)) \o scan_entries(f, Tail(its))

RECURSIVE SumLen(_, _)
SumLen(f, ents) ==
  IF ents = <<>> THEN 0 ELSE FileLen(f, Head(ents).src) + SumLen(f, Tail(ents))

\* destination of an entry inside the session directory
dst_for(ent) ==
  IF ent.folder_rel # <<>>
  THEN LET rel == ent.folder_rel[1]
       IN Path("dst", <<"Folders">> \o rel.parent, rel.stem, 0, rel.ext)
  ELSE Path("dst", <<"Files">>, ent.src.stem, 0, ent.src.ext)

\* "<stem> (i)<.ext>" next to dest
Candidate(dest, n) == [dest EXCEPT !.num = n]

\* (mutant) the first candidate is taken without looking whether it exists
unique_dest_path_unchecked(f, dest) ==
  IF ~Exists(f, dest) THEN dest ELSE [dest EXCEPT !.num = 1]

\* (mutant) the search takes the highest free suffix of the window
last_free(f, dest, n) ==
  LET free == { m \in n..RenameLimit : ~Exists(f, Candidate(dest, m)) }
  IN IF free = {} THEN dest
     ELSE Candidate(dest, CHOOSE m \in free : \A k \in free : k <= m)

\* the loop of unique_dest_path from suffix n on: the first candidate that does
\* not exist, or dest itself once the window is used up
RECURSIVE first_free(_, _, _)
first_free(f, dest, n) ==
  IF n > RenameLimit THEN dest
  ELSE IF ~Exists(f, Candidate(dest, n)) THEN Candidate(dest, n)
  ELSE first_free(f, dest, n + 1)

unique_dest_path(f, dest) ==
  IF ~Exists(f, dest) THEN dest ELSE first_free(f, dest, 1)

\* (mutant) `skip` falls through to the copy
resolve_conflict_no_skip(f, policy, dest) ==
  IF ~Exists(f, dest) THEN [skip |-> FALSE, dst |-> dest]
  ELSE IF policy \in {"overwrite", "skip"} THEN [skip |-> FALSE, dst |-> dest]
  ELSE [skip |-> FALSE, dst |-> unique_dest_path(f, dest)]

\* conflict handling of one entry: whether it is skipped, and the path to copy to
resolve_conflict(f, policy, dest) ==
  IF ~Exists(f, dest) THEN [skip |-> FALSE, dst |-> dest]
  ELSE IF policy = "overwrite" THEN [skip |-> FALSE, dst |-> dest]
  ELSE IF policy = "skip" THEN [skip |-> TRUE, dst |-> dest]
  ELSE [skip |-> FALSE, dst |-> unique_dest_path(f, dest)]

\* sha256_file: the digest of a file's content (injective on the contents modelled)
sha256_file(f, p) == <<"sha256", f[p].data>>

\* (mutant) sha256 mode compares sizes only
verify_copy_sizes_only(f, mode, src, dest, src_len) ==
  IF mode \in {"size", "sha256"}
  THEN IF FileLen(f, dest) # src_len THEN "verify failed: size mismatch" ELSE ""
  ELSE ""

\* verification of a finished copy: "" when it passes, else the error message
verify_copy(f, mode, src, dest, src_len) ==
  IF mode = "size"
  THEN IF FileLen(f, dest) # src_len THEN "verify failed: size mismatch" ELSE ""
  ELSE IF mode = "sha256"
  THEN IF sha256_file(f, src) # sha256_file(f, dest)
       THEN "verify failed: sha256 mismatch" ELSE ""
  ELSE ""

\* (mutant) the source is removed in move mode whatever the entry's error
wants_remove_always(e, mode) == mode = "move"

\* whether the source is removed after copy and verification
wants_remove(e, mode) == e = "" /\ mode = "move"

\* (mutant) README.txt is written by every run
write_readme_always(cur, io) == "static"

\* Transfers/README.txt after the setup: written when absent (a failed write
\* is ignored), left alone when present
write_readme(cur, io) ==
  IF cur = "absent" /\ io # "readme write error" THEN "static" ELSE cur

\* (mutant) a run that was not cancelled ends on a `copying` event
final_phase_unfinished(c) == IF c THEN "cancelled" ELSE "copying"

\* extensions whose category is decided by the lists of category_for
DocumentExts ==
  {"pdf", "doc", "docx", "ppt", "pptx", "xls", "xlsx", "txt", "md", "rtf", "csv", "json"}
ArchiveExts == {"zip", "7z", "rar", "tar", "gz", "bz2"}
CodeExts ==
  {"js", "ts", "tsx", "jsx", "py", "go", "java", "kt", "rs", "c", "cpp", "h", "hpp",
   "cs", "rb", "php", "sh", "yaml", "yml", "toml"}

\* category and extension key of a path (none of the extensions modelled has
\* an image, video or audio MIME type)
category_for(p) ==
  <<IF p.ext \in DocumentExts THEN "Documents"
    ELSE IF p.ext \in ArchiveExts THEN "Archives"
    ELSE IF p.ext \in CodeExts THEN "Code"
    ELSE "Other",
    IF p.ext = "" THEN "noext" ELSE p.ext>>

\* the HashMap of counts per key, over the keys that occur (keys: the key of
\* each entry, in scan order)
CountBy(keys) ==
  [k \in { keys[n] : n \in 1..Len(keys) } |->
     Cardinality({ n \in 1..Len(keys) : keys[n] = k })]

\* what `df -k <mount>` gives: the command cannot be run, its output has no
\* data line of four fields, the fourth field is not a number, or it is one
Df(kind, kb) == [kind |-> kind, avail_kb |-> kb]
DfOutputs ==
  {Df("spawn error", 0), Df("no line", 0), Df("not a number", 0)}
    \cup { Df("avail", kb) : kb \in 0..MaxAvailKb }

\* bytes per KiB
KiB == 1024

\* avail_bytes_for_mount: Err when df cannot be run, else the available bytes
avail_bytes_for_mount(m) ==
  IF m.kind = "spawn error" THEN [ok |-> FALSE, bytes |-> 0]
  ELSE IF m.kind = "avail" THEN [ok |-> TRUE, bytes |-> m.avail_kb * KiB]
  ELSE [ok |-> TRUE, bytes |-> 0]

\* Result::unwrap_or
unwrap_or(r, default) == IF r.ok THEN r.bytes ELSE default

\* the report of preflight_scan
Preflight(its, ents, total, avail) ==
  [total_files |-> Len(ents),
   total_folders |-> Cardinality({ n \in 1..Len(its) : its[n].kind = "folder" }),
   total_bytes |-> total,
   dest_avail_bytes |-> avail,
   will_fit |-> avail >= total,
   by_category |-> CountBy([n \in 1..Len(ents) |-> category_for(ents[n].src)[1]]),
   by_extension |->
     CountBy([n \in 1..Len(ents) |-> "." \o category_for(ents[n].src)[2]])]

\* terminal phase of the run
final_phase(c) == IF c THEN "cancelled" ELSE "done"

(* ------------------------------- records ------------------------------- *)

TransferProgress(phase, current_file, files, path, done, total, percent) ==
  [phase |-> phase, current_file |-> current_file, total_files |-> files,
   current_path |-> path, bytes_done |-> done, bytes_total |-> total,
   percent |-> percent]

ManifestItem(source, dest, bytes, st, e) ==
  [source |-> source, dest |-> dest, bytes |-> bytes, status |-> st, error |-> e]

\* (mutant) the new row takes the place of the last one
manifest_push_over(m, row) ==
  IF m = <<>> THEN <<row>> ELSE [m EXCEPT ![Len(m)] = row]

\* manifest.push(row)
manifest_push(m, row) == Append(m, row)

NoResult == [kind |-> "none", error |-> "", summary |-> <<>>]
Err(msg) == [kind |-> "err", error |-> msg, summary |-> <<>>]
Ok(summary) == [kind |-> "ok", error |-> "", summary |-> <<summary>>]

\* the session directory <mount>/Transfers/<day>/<run>/
SessionDir == Path("dst", <<>>, "", 0, "")

\* Transfers/ of a fresh mount
FreshLayout == [readme |-> "absent", latest |-> "absent", day_latest |-> "absent"]

\* Transfers/ as an earlier run of the day left it: its pointers, and a README
\* the user has edited since
UsedLayout == [readme |-> "edited", latest |-> "earlier", day_latest |-> "earlier"]

\* files in the session directory were put there by an earlier run
Layouts(pre) == IF pre = {} THEN {FreshLayout, UsedLayout} ELSE {UsedLayout}

(* -------------------------------- state -------------------------------- *)

VARIABLES
  items, copy_mode, conflict_policy, verify_mode,  \* the command's arguments
  cancel,          \* CancelFlag: the process-wide AtomicBool
  fs,              \* the file system: path -> file
  layout,          \* README.txt and the two _latest.txt pointers
  pc,              \* position of the run inside start_transfer
  entries, total_bytes, total_files,
  manifest, copied_files, moved_files, skipped_files, error_files, bytes_done,
  i,               \* index of the loop over entries (0-based, as enumerate())
  bytes, dst, status, err,   \* locals of the loop body
  off,             \* chunks of the source read so far by copy_file_streamed
  brk,             \* how the loop was left: "none", "before" or "during" an entry
  events,          \* the transfer://progress events emitted so far
  faults,          \* file system faults the environment has injected so far
  emits,           \* progress events emitted from the chunk loop so far
  manifest_file,   \* manifest.json of the session directory
  result,          \* what the command returned
  mount,           \* what `df -k` gives for the destination mount
  preflight        \* what the preflight_scan command returned

args == <<items, copy_mode, conflict_policy, verify_mode>>
scan == <<entries, total_bytes, total_files>>
counters == <<copied_files, moved_files, skipped_files, error_files>>
locals == <<bytes, dst, status, err, off>>
space == <<mount, preflight>>

vars == <<args, cancel, fs, layout, pc, scan, manifest, counters, bytes_done, i,
          locals, brk, events, faults, emits, manifest_file, result, space>>

\* the outcomes of a fallible call: "ok", and its failure while faults are left
Io(failure) == IF faults < MaxFaults THEN {"ok", failure} ELSE {"ok"}

\* the environment's part of a step: a failed call uses up one fault
Fault(io) == faults' = IF io = "ok" THEN faults ELSE faults + 1

Emit(ev) == events' = Append(events, ev)

InitFs(pre) ==
  [p \in AllPaths |->
     IF p \in SrcPaths THEN File(SrcData(p))
     ELSE IF p \in pre THEN File(OldData)
     ELSE Absent]

\* no command has run yet
Idle ==
  /\ cancel = FALSE
  /\ entries = <<>> /\ total_bytes = 0 /\ total_files = 0
  /\ manifest = <<>>
  /\ copied_files = 0 /\ moved_files = 0 /\ skipped_files = 0 /\ error_files = 0
  /\ bytes_done = 0
  /\ i = 0
  /\ bytes = 0 /\ dst = NoPath /\ status = "" /\ err = "" /\ off = 0
  /\ brk = "none"
  /\ events = <<>>
  /\ faults = 0
  /\ emits = 0
  /\ manifest_file = [written |-> FALSE, rows |-> <<>>]
  /\ result = NoResult
  /\ preflight = NoResult

\* the UI invokes start_transfer
Init ==
  /\ items \in SeqsUpTo(PickMenu, MaxItems)
  /\ copy_mode \in CopyModes
  /\ conflict_policy \in ConflictPolicies
  /\ verify_mode \in VerifyModes
  /\ \E pre \in PreSets : fs = InitFs(pre) /\ layout \in Layouts(pre)
  /\ mount = Df("avail", MaxAvailKb)
  /\ pc = "invoke"
  /\ Idle

\* the sources that are gone by the time of the preflight
Gone(f, gone) == [p \in AllPaths |-> IF p \in gone THEN Absent ELSE f[p]]

\* the UI invokes preflight_scan on a queue, for a fresh mount
PreflightInit ==
  /\ items \in SeqsUpTo(PickMenu, MaxItems)
  /\ copy_mode = "copy" /\ conflict_policy = "rename" /\ verify_mode = "none"
  /\ \E gone \in SUBSET SrcPaths : fs = Gone(InitFs({}), gone)
  /\ layout = FreshLayout
  /\ mount \in DfOutputs
  /\ pc = "preflight"
  /\ Idle

\* (mutant) the command stops without handing the error to the caller
Fail_silently(msg) == pc' = "failed" /\ UNCHANGED result

\* a `?` that propagates: the command returns Err(msg)
Fail(msg) == pc' = "failed" /\ result' = Err(msg)

(* ------------------------------- actions ------------------------------- *)

\* cancel_transfer: the UI sets the flag, at any time
CancelTransfer ==
  /\ pc \notin {"done", "failed"}
  /\ ~cancel
  /\ cancel' = TRUE
  /\ UNCHANGED <<args, space, fs, layout, pc, scan, manifest, counters, bytes_done, i,
                 locals, brk, events, faults, emits, manifest_file, result>>

\* the start_transfer command: reset the flag, emit `scanning`, scan the items
Invoke ==
  /\ pc = "invoke"
  /\ cancel' = FALSE
  /\ Emit(TransferProgress("scanning", 0, 0, NoPath, 0, 0, 0))
  /\ entries' = scan_entries(fs, items)
  /\ pc' = "totals"
  /\ UNCHANGED <<args, space, fs, layout, total_bytes, total_files, manifest, counters,
                 bytes_done, i, locals, brk, faults, emits, manifest_file, result>>

\* precompute total_bytes: one metadata read per entry
Totals ==
  /\ pc = "totals"
  /\ \E io \in IF entries = <<>> THEN {"ok"} ELSE Io("metadata error") :
       /\ Fault(io)
       /\ IF \E k \in 1..Len(entries) : metadata_failed(fs, entries[k].src, io)
          THEN Fail("metadata error") /\ UNCHANGED total_bytes
          ELSE /\ total_bytes' = SumLen(fs, entries)
               /\ pc' = "setup"
               /\ UNCHANGED result
  /\ UNCHANGED <<args, space, cancel, fs, layout, entries, total_files, manifest, counters,
                 bytes_done, i, locals, brk, events, emits, manifest_file>>

\* session directory, README, the two latest pointers, the first `copying` event
Setup ==
  /\ pc = "setup"
  /\ \E io \in Io("mkdir error") \cup Io("latest write error")
               \cup Io("day latest write error")
               \cup (IF layout.readme = "absent" THEN Io("readme write error") ELSE {}) :
       LET readme == write_readme(layout.readme, io)
       IN /\ Fault(io)
          /\ IF io = "mkdir error"
             THEN Fail(io) /\ UNCHANGED <<layout, total_files, events>>
             ELSE IF io = "latest write error"
             THEN /\ Fail(io)
                  /\ layout' = [layout EXCEPT !.readme = readme]
                  /\ UNCHANGED <<total_files, events>>
             ELSE IF io = "day latest write error"
             THEN /\ Fail(io)
                  /\ layout' = [layout EXCEPT !.readme = readme, !.latest = "session"]
                  /\ UNCHANGED <<total_files, events>>
             ELSE /\ layout' = [readme |-> readme, latest |-> "session",
                                 day_latest |-> "session"]
                  /\ total_files' = Len(entries)
                  /\ Emit(TransferProgress("copying", 0, Len(entries), NoPath, 0,
                                           total_bytes, 0))
                  /\ pc' = "loop"
                  /\ UNCHANGED result
  /\ UNCHANGED <<args, space, cancel, fs, entries, total_bytes, manifest, counters,
                 bytes_done, i, locals, brk, emits, manifest_file>>

\* (mutant) the loop body looks at the first entry every time
Ent_first == entries[1]

\* the entry the loop is at
Ent == entries[i + 1]

\* (mutant) the flag is not looked at before an entry
entry_cancelled_never(c) == FALSE

\* whether the loop stops on the flag before an entry
entry_cancelled(c) == c

\* top of the loop over entries: all done, or the cancel check before an entry
LoopHead ==
  /\ pc = "loop"
  /\ IF i = Len(entries)
     THEN pc' = "manifest" /\ UNCHANGED <<brk, events>>
     ELSE IF entry_cancelled(cancel)
     THEN /\ Emit(TransferProgress("cancelled", i + 1, total_files, Ent.src,
                                   bytes_done, total_bytes, pct(bytes_done, total_bytes)))
          /\ brk' = "before"
          /\ pc' = "manifest"
     ELSE pc' = "entry" /\ UNCHANGED <<brk, events>>
  /\ UNCHANGED <<args, space, cancel, fs, layout, scan, manifest, counters, bytes_done, i,
                 locals, faults, emits, manifest_file, result>>

\* (mutant) skipped entries are not counted
tally_no_skipped(st) ==
  [copied |-> IF st = "copied" THEN 1 ELSE 0,
   moved |-> IF st = "moved" THEN 1 ELSE 0,
   skipped |-> 0,
   error |-> IF st = "error" THEN 1 ELSE 0]

\* which summary counter an outcome adds to
tally(st) ==
  [copied |-> IF st = "copied" THEN 1 ELSE 0,
   moved |-> IF st = "moved" THEN 1 ELSE 0,
   skipped |-> IF st = "skipped" THEN 1 ELSE 0,
   error |-> IF st = "error" THEN 1 ELSE 0]

Count(t) ==
  /\ copied_files' = copied_files + t.copied
  /\ moved_files' = moved_files + t.moved
  /\ skipped_files' = skipped_files + t.skipped
  /\ error_files' = error_files + t.error

\* start of the loop body: source metadata, destination, conflict handling,
\* start-of-file event
Entry ==
  /\ pc = "entry"
  /\ \E io \in Io("metadata error") :
       /\ Fault(io)
       /\ IF metadata_failed(fs, Ent.src, io)
          THEN /\ Fail("metadata error")
               /\ UNCHANGED <<manifest, counters, i, locals, events>>
          ELSE LET len == FileLen(fs, Ent.src)
                   res == resolve_conflict(fs, conflict_policy, dst_for(Ent))
               IN IF res.skip
                  THEN /\ Count(tally("skipped"))
                       /\ manifest' = manifest_push(manifest,
                                         ManifestItem(Ent.src, res.dst, len, "skipped", ""))
                       /\ i' = i + 1
                       /\ pc' = "loop"
                       /\ UNCHANGED <<locals, events, result>>
                  ELSE /\ bytes' = len
                       /\ dst' = res.dst
                       /\ status' = "copied"
                       /\ err' = ""
                       /\ off' = 0
                       /\ Emit(TransferProgress("copying", i + 1, total_files, Ent.src,
                                                bytes_done, total_bytes,
                                                pct(bytes_done, total_bytes)))
                       /\ pc' = "open"
                       /\ UNCHANGED <<manifest, counters, i, result>>
  /\ UNCHANGED <<args, space, cancel, fs, layout, scan, bytes_done, brk, emits, manifest_file>>

\* copy_file_streamed up to the loop: parent directory, open source, create
\* (truncate) destination
CopyOpen ==
  /\ pc = "open"
  /\ \E io \in Io("create dst error") :
       /\ Fault(io)
       /\ IF io = "ok"
          THEN /\ fs' = [fs EXCEPT ![dst] = File(<<>>)]
               /\ pc' = "chunk"
               /\ UNCHANGED err
          ELSE /\ err' = io
               /\ pc' = "record"
               /\ UNCHANGED fs
  /\ UNCHANGED <<args, space, cancel, layout, scan, manifest, counters, bytes_done, i,
                 bytes, dst, status, off, brk, events, emits, manifest_file, result>>

\* (mutant) the flag is not looked at inside the chunk loop
chunk_cancelled_never(c) == FALSE

\* whether the chunk loop stops on the flag
chunk_cancelled(c) == c

\* top of the chunk loop of copy_file_streamed: the cancel check
CopyChunk ==
  /\ pc = "chunk"
  /\ IF chunk_cancelled(cancel)
     THEN \* Err("cancelled"): cancelled row, `cancelled` event, break
          /\ manifest' = manifest_push(manifest,
                            ManifestItem(Ent.src, dst, bytes, "cancelled", ""))
          /\ Emit(TransferProgress("cancelled", i + 1, total_files, Ent.src,
                                   bytes_done, total_bytes, pct(bytes_done, total_bytes)))
          /\ brk' = "during"
          /\ pc' = "manifest"
     ELSE /\ pc' = "read"
          /\ UNCHANGED <<manifest, events, brk>>
  /\ UNCHANGED <<args, space, cancel, fs, layout, scan, counters, bytes_done, i, locals,
                 faults, emits, manifest_file, result>>

\* rest of the turn: read a chunk, write it, count it, throttled progress event
CopyRead ==
  /\ pc = "read"
  /\ \E io \in Io("read error") :
       /\ Fault(io)
       /\ IF io # "ok"
          THEN /\ err' = io
               /\ pc' = "record"
               /\ UNCHANGED <<fs, bytes_done, off, events, emits>>
          ELSE IF off >= FileLen(fs, Ent.src)
          THEN \* n == 0: end of the source
               /\ pc' = "verify"
               /\ UNCHANGED <<fs, bytes_done, err, off, events, emits>>
          ELSE /\ fs' = [fs EXCEPT ![dst].data = Append(@, fs[Ent.src].data[off + 1])]
               /\ bytes_done' = bytes_done + 1
               /\ off' = off + 1
               /\ \E throttled \in IF emits < MaxEmits THEN BOOLEAN ELSE {TRUE} :
                    IF throttled THEN UNCHANGED <<events, emits>>
                    ELSE emits' = emits + 1 /\
                         Emit(TransferProgress("copying", i + 1, total_files, Ent.src,
                                               bytes_done + 1, total_bytes,
                                               pct(bytes_done + 1, total_bytes)))
               /\ pc' = "chunk"
               /\ UNCHANGED err
  /\ UNCHANGED <<args, space, cancel, layout, scan, manifest, counters, i, bytes, dst,
                 status, brk, manifest_file, result>>

\* the destination medium damages the finished copy before it is verified:
\* its last chunk is flipped (same size) or lost (shorter)
Corrupt ==
  /\ pc = "verify"
  /\ verify_mode \in {"size", "sha256"}
  /\ faults < MaxFaults
  /\ faults' = faults + 1
  /\ fs[dst].data = fs[Ent.src].data
  /\ fs[dst].data # <<>>
  /\ LET d == fs[dst].data
     IN \E damaged \in {[d EXCEPT ![Len(d)] = BadChunk], SubSeq(d, 1, Len(d) - 1)} :
          fs' = [fs EXCEPT ![dst].data = damaged]
  /\ UNCHANGED <<args, space, cancel, layout, pc, scan, manifest, counters, bytes_done, i,
                 locals, brk, events, emits, manifest_file, result>>

\* verification of a copy that ended Ok
Verify ==
  /\ pc = "verify"
  /\ \E io \in IF verify_mode = "none" THEN {"ok"} ELSE Io("fail") :
       /\ Fault(io)
       /\ IF io = "fail" /\ verify_mode = "size"
          THEN Fail("dst metadata error") /\ UNCHANGED <<err, events>>
          ELSE /\ IF verify_mode = "sha256"
                  THEN Emit(TransferProgress("verifying", i + 1, total_files, Ent.src,
                                             bytes_done, total_bytes,
                                             pct(bytes_done, total_bytes)))
                  ELSE UNCHANGED events
               /\ IF io = "fail" /\ verify_mode = "sha256"
                  THEN Fail("open error") /\ UNCHANGED err
                  ELSE /\ err' = verify_copy(fs, verify_mode, Ent.src, dst, bytes)
                       /\ pc' = "cleanup"
                       /\ UNCHANGED result
  /\ UNCHANGED <<args, space, cancel, fs, layout, scan, manifest, counters, bytes_done, i,
                 bytes, dst, status, off, brk, emits, manifest_file>>

\* move cleanup: remove the source of a verified copy
Cleanup ==
  /\ pc = "cleanup"
  /\ IF wants_remove(err, copy_mode)
     THEN \E io \in Io("fail") :
            /\ Fault(io)
            /\ IF io = "fail"
               THEN err' = "move cleanup failed" /\ UNCHANGED <<fs, status>>
               ELSE /\ fs' = [fs EXCEPT ![Ent.src] = Absent]
                    /\ status' = "moved"
                    /\ UNCHANGED err
     ELSE UNCHANGED <<fs, status, err, faults>>
  /\ pc' = "record"
  /\ UNCHANGED <<args, space, cancel, layout, scan, manifest, counters, bytes_done, i,
                 bytes, dst, off, brk, events, emits, manifest_file, result>>

\* (mutant) the counter is chosen by copy mode alone
outcome_by_mode(e, mode) == IF mode = "move" THEN "moved" ELSE "copied"

\* the counter a finished entry adds to: error, or by copy mode
outcome(e, mode) ==
  IF e # "" THEN "error" ELSE IF mode = "move" THEN "moved" ELSE "copied"

\* (mutant) the row keeps the copy's status whatever the error
row_status_ignores_error(e, st) == st

\* the status written to the row of a finished entry
row_status(e, st) == IF e # "" THEN "error" ELSE st

\* manifest row of the entry, its counter, the end-of-file event
Record ==
  /\ pc = "record"
  /\ Count(tally(outcome(err, copy_mode)))
  /\ manifest' = manifest_push(manifest,
                    ManifestItem(Ent.src, dst, bytes, row_status(err, status), err))
  /\ Emit(TransferProgress("copying", i + 1, total_files, NoPath, bytes_done,
                           total_bytes, pct(bytes_done, total_bytes)))
  /\ i' = i + 1
  /\ pc' = "loop"
  /\ UNCHANGED <<args, space, cancel, fs, layout, scan, bytes_done, locals, brk, faults,
                 emits, manifest_file, result>>

\* serialize the manifest into manifest.json
WriteManifest ==
  /\ pc = "manifest"
  /\ \E io \in Io("fail") :
       /\ Fault(io)
       /\ IF io = "fail"
          THEN Fail("manifest write error") /\ UNCHANGED manifest_file
          ELSE /\ manifest_file' = [written |-> TRUE, rows |-> manifest]
               /\ pc' = "final"
               /\ UNCHANGED result
  /\ UNCHANGED <<args, space, cancel, fs, layout, scan, manifest, counters, bytes_done, i,
                 locals, brk, events, emits>>

TransferSummary ==
  [total_files |-> copied_files + moved_files + skipped_files + error_files,
   total_bytes |-> total_bytes,
   copied_files |-> copied_files, moved_files |-> moved_files,
   skipped_files |-> skipped_files, error_files |-> error_files,
   output_session_dir |-> SessionDir]

\* final event and the summary
Final ==
  /\ pc = "final"
  /\ LET phase == final_phase(cancel)
     IN Emit(TransferProgress(phase, total_files, total_files, SessionDir, bytes_done,
                              total_bytes,
                              IF phase = "done" THEN 100
                              ELSE pct(bytes_done, total_bytes)))
  /\ result' = Ok(TransferSummary)
  /\ pc' = "done"
  /\ UNCHANGED <<args, space, cancel, fs, layout, scan, manifest, counters, bytes_done, i,
                 locals, brk, faults, emits, manifest_file>>

Next ==
  \/ CancelTransfer
  \/ Invoke
  \/ Totals
  \/ Setup
  \/ LoopHead
  \/ Entry
  \/ CopyOpen
  \/ CopyChunk
  \/ CopyRead
  \/ Corrupt
  \/ Verify
  \/ Cleanup
  \/ Record
  \/ WriteManifest
  \/ Final

Spec == Init /\ [][Next]_vars

\* the preflight_scan command: scan, sum the sizes, ask for the free space
preflight_scan ==
  /\ pc = "preflight"
  /\ LET ents == scan_entries(fs, items)
         avail == unwrap_or(avail_bytes_for_mount(mount), 0)
     IN \E io \in IF ents = <<>> THEN {"ok"} ELSE Io("metadata error") :
          /\ Fault(io)
          /\ IF \E k \in 1..Len(ents) : metadata_failed(fs, ents[k].src, io)
             THEN preflight' = Err("metadata error")
             ELSE preflight' = Ok(Preflight(items, ents, SumLen(fs, ents), avail))
  /\ pc' = "preflighted"
  /\ UNCHANGED <<args, cancel, fs, layout, scan, manifest, counters, bytes_done, i,
                 locals, brk, events, emits, manifest_file, result, mount>>

PreflightSpec == PreflightInit /\ [][preflight_scan]_vars

\* the steps of the command itself (the others are the UI's and the medium's)
Run ==
  \/ Invoke \/ Totals \/ Setup \/ LoopHead \/ Entry \/ CopyOpen \/ CopyChunk
  \/ CopyRead \/ Verify \/ Cleanup \/ Record \/ WriteManifest \/ Final

(* ------------------------- vocabulary of the claims -------------------- *)

Rows(st) == { k \in 1..Len(manifest) : manifest[k].status = st }
Ended == pc \in {"done", "failed"}
LastEvent == events[Len(events)]
RenamePolicy == conflict_policy \notin {"overwrite", "skip"}

\* messages of the errors that are recorded per entry
CopyErrors == {"create dst error", "read error"}
VerifyErrors == {"verify failed: size mismatch", "verify failed: sha256 mismatch"}
CleanupErrors == {"move cleanup failed"}

\* messages of the errors that end the command
FatalErrors ==
  {"metadata error", "mkdir error", "latest write error", "day latest write error",
   "dst metadata error", "open error", "manifest write error"}

(* ---------------------------------- C1 --------------------------------- *)

\* C1 as stated: at the end of a move-mode run the source of every `moved` row
\* is gone, and for every `error` row the destination copy exists and the
\* source still exists.
C1_AsStated ==
  (Ended /\ copy_mode = "move") =>
    /\ \A k \in Rows("moved") : ~Exists(fs, manifest[k].source)
    /\ \A k \in Rows("error") :
         Exists(fs, manifest[k].dest) /\ Exists(fs, manifest[k].source)

\* a later row moved the same source
MovedLater(k) ==
  \E j \in Rows("moved") : j > k /\ manifest[j].source = manifest[k].source

\* C1 (amended): when a move-mode run ends the source of every `moved` row is gone;
\* the source of every `error` row still exists unless a later entry of the
\* run moved the same source; and the destination copy of an `error` row
\* exists when the error is a failed verification or a failed source deletion
\* (a failed copy may leave no destination file).
C1_MoveKeepsOneCopy ==
  (Ended /\ copy_mode = "move") =>
    /\ \A k \in Rows("moved") : ~Exists(fs, manifest[k].source)
    /\ \A k \in Rows("error") :
         /\ Exists(fs, manifest[k].source) \/ MovedLater(k)
         /\ manifest[k].error \in VerifyErrors \cup CleanupErrors
              => Exists(fs, manifest[k].dest)

\* a finished move-mode run with a moved entry and an entry whose source
\* deletion failed
C1_Witness ==
  /\ pc = "done" /\ copy_mode = "move"
  /\ Rows("moved") # {}
  /\ \E k \in Rows("error") :
       /\ manifest[k].error = "move cleanup failed"
       /\ Exists(fs, manifest[k].source) /\ Exists(fs, manifest[k].dest)

(* ---------------------------------- C2 --------------------------------- *)

Summary == result.summary[1]

\* 1 when the loop was left by a cancellation inside copy_file_streamed
CancelledMid == IF brk = "during" THEN 1 ELSE 0

\* entries the loop body was entered for: the finished ones and the one in flight
Processed == i + CancelledMid

\* C2: in every run that returns a summary, copied + moved + skipped + error
\* + (1 if an entry was cancelled mid-copy) is the number of entries processed
\* before the run stopped, and that is the number of rows of the manifest.
C2_CountersCoverProcessed ==
  result.kind = "ok" =>
    /\ Summary.copied_files + Summary.moved_files + Summary.skipped_files
         + Summary.error_files + CancelledMid = Processed
    /\ Processed = Len(manifest_file.rows)
    /\ Processed <= Len(entries)

\* a run cancelled inside its second entry after a skipped first entry
C2_Witness ==
  /\ result.kind = "ok" /\ brk = "during"
  /\ Len(manifest_file.rows) = 2
  /\ Summary.skipped_files = 1

(* ---------------------------------- C3 --------------------------------- *)

FileRows(st) ==
  { k \in 1..Len(manifest_file.rows) : manifest_file.rows[k].status = st }

\* C3: at the end of a run each of the four counters equals the number of
\* manifest rows with its status, so every processed entry was counted once
\* under its final status and a `cancelled` row under none.
C3_CountersMatchRows ==
  result.kind = "ok" =>
    /\ Summary.copied_files = Cardinality(FileRows("copied"))
    /\ Summary.moved_files = Cardinality(FileRows("moved"))
    /\ Summary.skipped_files = Cardinality(FileRows("skipped"))
    /\ Summary.error_files = Cardinality(FileRows("error"))
    /\ \A k \in 1..Len(manifest_file.rows) :
         manifest_file.rows[k].status \in {"copied", "moved", "skipped", "error", "cancelled"}

\* a move-mode run with an error row, a moved row and a cancelled row
C3_Witness ==
  /\ result.kind = "ok" /\ copy_mode = "move"
  /\ FileRows("error") # {} /\ FileRows("moved") # {} /\ FileRows("cancelled") # {}

(* ---------------------------------- C4 --------------------------------- *)

\* the step of the loop body that hands a destination to the copy step
StartsCopy == pc = "entry" /\ pc' = "open"

\* every candidate of the search window exists
WindowFull(dest) == \A n \in 1..RenameLimit : Exists(fs, Candidate(dest, n))

\* C4 as stated: under `rename` (and any unrecognized policy), whenever the
\* computed destination exists, the path passed to the copy step did not
\* exist at the time of the check.
C4_AsStated ==
  [][(StartsCopy /\ RenamePolicy /\ Exists(fs, dst_for(Ent))) => ~Exists(fs, dst')]_vars

\* C4 (amended): under `rename` (and any unrecognized policy), whenever the
\* computed destination exists, the path passed to the copy step did not
\* exist at the time of the check, unless every candidate of the search
\* window exists: then the colliding path itself is passed on and the copy
\* overwrites it.
C4_RenameAvoidsExisting ==
  [][/\ (StartsCopy /\ RenamePolicy /\ Exists(fs, dst_for(Ent))) =>
          IF WindowFull(dst_for(Ent)) THEN dst' = dst_for(Ent)
          ELSE ~Exists(fs, dst') /\ dst' # dst_for(Ent)
     \* and the copy step creates over an existing file only in that case
     /\ (pc = "open" /\ pc' = "chunk" /\ RenamePolicy /\ Exists(fs, dst)) =>
          dst = dst_for(Ent) /\ WindowFull(dst)]_vars

\* a copy about to start at a renamed path, the first candidate being taken
C4_Witness ==
  /\ pc = "open" /\ RenamePolicy
  /\ Exists(fs, dst_for(Ent)) /\ Exists(fs, Candidate(dst_for(Ent), 1))
  /\ dst.num > 1 /\ ~Exists(fs, dst)

(* ---------------------------------- C5 --------------------------------- *)

\* the loop body step, its metadata read done, finds the destination existing
SkipCase ==
  /\ pc = "entry" /\ pc' \notin {"entry", "failed"}
  /\ conflict_policy = "skip" /\ Exists(fs, dst_for(Ent))

\* C5: under `skip`, an entry whose destination exists writes nothing: the
\* file system (destination content, source) is unchanged also in move mode,
\* the entry gets one `skipped` row, no progress event is emitted and
\* bytes_done is unchanged.
C5_SkipTouchesNothing ==
  [][SkipCase =>
       /\ fs' = fs
       /\ events' = events
       /\ bytes_done' = bytes_done
       /\ manifest' = Append(manifest,
                         ManifestItem(Ent.src, dst_for(Ent), FileLen(fs, Ent.src),
                                      "skipped", ""))
       /\ skipped_files' = skipped_files + 1
       /\ <<copied_files, moved_files, error_files>>' =
            <<copied_files, moved_files, error_files>>
       /\ i' = i + 1 /\ pc' = "loop"]_vars

\* a finished move-mode run whose skipped source and its destination are untouched
C5_Witness ==
  /\ pc = "done" /\ copy_mode = "move" /\ conflict_policy = "skip"
  /\ \E k \in Rows("skipped") :
       /\ Exists(fs, manifest[k].source)
       /\ fs[manifest[k].dest] = File(OldData)

(* ---------------------------------- C6 --------------------------------- *)

\* the cancel check at the top of the loop finds the flag set, k = i entries
\* being complete and entry k+1 not started
CancelSeenBefore == pc = "loop" /\ i < Len(entries) /\ cancel /\ pc' # pc

\* C6: when the flag is found set before entry k+1, a `cancelled` event is
\* emitted and no further entry is started: from then on no row is added or
\* changed, no file is written, the counters stay, and the run that returns
\* ends with terminal phase `cancelled` and a summary of exactly the k
\* completed entries, all of them in the manifest written.
C6_CancelBeforeEntry ==
  [][/\ CancelSeenBefore =>
          /\ pc' = "manifest" /\ brk' = "before"
          /\ events' = Append(events,
                 TransferProgress("cancelled", i + 1, total_files, Ent.src, bytes_done,
                                  total_bytes, pct(bytes_done, total_bytes)))
     /\ (CancelSeenBefore \/ brk = "before") =>
          /\ pc' \in {"manifest", "final", "done", "failed"}
          /\ <<manifest, fs, counters, i, bytes_done>>' =
               <<manifest, fs, counters, i, bytes_done>>
          /\ Len(manifest) = i
     /\ (brk = "before" /\ pc' = "done") =>
          /\ events'[Len(events')].phase = "cancelled"
          /\ result'.kind = "ok"
          /\ result'.summary[1].total_files = i
          /\ manifest_file.rows = manifest]_vars

\* a run of three entries cancelled before its second, returned
C6_Witness ==
  /\ pc = "done" /\ brk = "before"
  /\ i = 1 /\ Len(entries) = 3 /\ Len(manifest_file.rows) = 1
  /\ Summary.total_files = 1
  /\ LastEvent.phase = "cancelled"
  /\ \A k \in 2..3 : ~Exists(fs, dst_for(entries[k]))

(* ---------------------------------- C7 --------------------------------- *)

\* the chunk loop finds the flag set
CancelSeenDuring == pc = "chunk" /\ cancel /\ pc' # pc

\* C7: when the chunk loop finds the flag set, the entry in flight gets a
\* `cancelled` row, the file system is left as it is (partial destination
\* kept, source kept, also in move mode), and the run goes straight to
\* writing the manifest: no verification, no cleanup, no later entry.
C7_CancelDuringCopy ==
  [][/\ CancelSeenDuring =>
          /\ manifest' = Append(manifest,
                            ManifestItem(Ent.src, dst, bytes, "cancelled", ""))
          /\ pc' = "manifest" /\ brk' = "during"
          /\ events'[Len(events')].phase = "cancelled"
     /\ (CancelSeenDuring \/ brk = "during") =>
          /\ pc' \in {"manifest", "final", "done", "failed"}
          /\ <<fs, counters, i, bytes_done>>' = <<fs, counters, i, bytes_done>>
          /\ \A k \in 1..Len(events') : k > Len(events) => events'[k].phase # "verifying"
     /\ brk = "during" =>
          /\ manifest' = manifest
          /\ Exists(fs, entries[i + 1].src)
          /\ Exists(fs, manifest[Len(manifest)].dest)]_vars

\* a move-mode run cancelled inside a copy, returned: the destination holds a
\* proper part of the source, which is still there
C7_Witness ==
  /\ pc = "done" /\ brk = "during" /\ copy_mode = "move" /\ verify_mode = "sha256"
  /\ Exists(fs, Ent.src) /\ Exists(fs, dst)
  /\ Len(fs[dst].data) > 0 /\ Len(fs[dst].data) < Len(fs[Ent.src].data)
  /\ i + 1 < Len(entries)
  /\ manifest[Len(manifest)].status = "cancelled"

(* ---------------------------------- C8 --------------------------------- *)

PerEntryErrors == CopyErrors \cup VerifyErrors \cup CleanupErrors

\* C8 as stated: a failure of an entry's copy, verification or source deletion
\* never aborts the run: no step of the copy, the verification or the cleanup
\* ends the command with an error.
C8_AsStated ==
  [][(pc \in {"open", "chunk", "read", "verify", "cleanup"}) => (pc' # "failed")]_vars

\* C8, as far as the code goes: a failed copy, a verification mismatch and a
\* failed source deletion never abort the run: the step in which the error arises does not
\* end the command, the entry gets one `error` row carrying the message, the
\* loop goes on with the next entry, and the command never returns one of
\* these errors: when it returns a summary the manifest was written with the
\* row in it.
C8_PerEntryErrorsRecorded ==
  [][/\ (err' # err /\ err' # "") =>
          /\ err' \in PerEntryErrors
          /\ pc' \in {"cleanup", "record"} /\ result' = result
     /\ (pc \in {"cleanup", "record"} /\ err # "") =>
          /\ pc' \in {pc, "record", "loop"}
          /\ fs' = fs
     /\ (pc = "record" /\ pc' # pc /\ err # "") =>
          /\ manifest' = Append(manifest, ManifestItem(Ent.src, dst, bytes, "error", err))
          /\ error_files' = error_files + 1
          /\ i' = i + 1 /\ pc' = "loop"
     /\ result'.kind = "err" => result'.error \in FatalErrors \ PerEntryErrors
     /\ pc' = "done" =>
          /\ result'.kind = "ok" /\ manifest_file.written
          /\ manifest_file.rows = manifest
          /\ result'.summary[1].error_files = Cardinality(Rows("error"))]_vars

\* a run returned a summary although its first entry failed to copy; the
\* second entry was copied
C8_Witness ==
  /\ pc = "done" /\ result.kind = "ok"
  /\ Len(manifest_file.rows) = 2
  /\ manifest_file.rows[1].status = "error"
  /\ manifest_file.rows[1].error \in CopyErrors
  /\ manifest_file.rows[2].status = "copied"
  /\ Exists(fs, manifest_file.rows[2].dest)

(* ---------------------------------- C9 --------------------------------- *)

\* the sources this step deletes
Deleted == { p \in SrcPaths : Exists(fs, p) /\ ~Exists(fs', p) }

\* C9: a source is deleted only in move mode, only the source of the entry in
\* flight, only after its copy read the whole source without error and the
\* verification passed (size: destination size = size read before the copy;
\* sha256: destination content = source content). A copy that does not verify
\* gets an `error` row and keeps its source; in copy mode nothing is deleted.
C9_DeleteOnlyVerified ==
  [][/\ \A p \in Deleted :
          /\ copy_mode = "move" /\ pc = "cleanup" /\ p = Ent.src /\ err = ""
          /\ off = FileLen(fs, p)
          /\ verify_mode = "size" => FileLen(fs, dst) = bytes
          /\ verify_mode = "sha256" => fs[dst].data = fs[p].data
     /\ (pc = "record" /\ pc' # pc /\ err \notin CopyErrors) =>
          LET row == manifest'[Len(manifest')]
              unverified ==
                \/ verify_mode = "size" /\ FileLen(fs, dst) # bytes
                \/ verify_mode = "sha256" /\ fs[dst].data # SrcData(Ent.src)
          IN /\ unverified => row.status = "error" /\ row.error \in VerifyErrors
             /\ row.status = "error" => Exists(fs', Ent.src)
             /\ row.status = "moved" <=> (copy_mode = "move" /\ err = "")
             /\ row.status = "moved" => ~Exists(fs', Ent.src)]_vars

\* a move-mode sha256 run whose damaged copy (same size) was refused: error
\* row, source kept
C9_Witness ==
  /\ pc = "done" /\ copy_mode = "move" /\ verify_mode = "sha256"
  /\ \E k \in Rows("error") :
       /\ manifest[k].error = "verify failed: sha256 mismatch"
       /\ Exists(fs, manifest[k].source)
       /\ Len(fs[manifest[k].dest].data) = manifest[k].bytes
       /\ fs[manifest[k].dest].data # fs[manifest[k].source].data

(* ---------------------------------- C10 -------------------------------- *)

\* what the caller holds: nothing while the command runs, then a complete
\* summary (after the manifest was written) or an explicit error
Outcome ==
  /\ result.kind = "none" <=> ~Ended
  /\ pc = "done" <=>
       /\ result.kind = "ok"
       /\ manifest_file.written /\ manifest_file.rows = manifest
       /\ Summary.total_files = Summary.copied_files + Summary.moved_files
                                  + Summary.skipped_files + Summary.error_files
  /\ pc = "failed" <=> (result.kind = "err" /\ result.error \in FatalErrors)

\* longest source, in chunks
MaxChunks == CHOOSE n \in 0..Cardinality(SrcPaths) * 2 :
               /\ \A p \in SrcPaths : Len(SrcData(p)) <= n
               /\ \E p \in SrcPaths : Len(SrcData(p)) = n

\* most steps the command takes for one entry
EntrySteps == 2 * MaxChunks + 9

\* how far the command is inside the body of the loop
Stage ==
  IF pc = "loop" THEN 0
  ELSE IF pc = "entry" THEN 1
  ELSE IF pc = "open" THEN 2
  ELSE IF pc = "chunk" THEN 3 + 2 * off
  ELSE IF pc = "read" THEN 4 + 2 * off
  ELSE IF pc = "verify" THEN 5 + 2 * MaxChunks
  ELSE IF pc = "cleanup" THEN 6 + 2 * MaxChunks
  ELSE 7 + 2 * MaxChunks

\* an upper bound of the steps the command still takes
StepsLeft ==
  IF Ended THEN 0
  ELSE IF pc = "final" THEN 1
  ELSE IF pc = "manifest" THEN 2
  ELSE IF pc = "invoke" THEN 6 + Len(scan_entries(fs, items)) * EntrySteps
  ELSE IF pc = "totals" THEN 5 + Len(entries) * EntrySteps
  ELSE IF pc = "setup" THEN 4 + Len(entries) * EntrySteps
  ELSE 3 + (Len(entries) - i) * EntrySteps - Stage

\* C10: every invocation on a finite item list terminates (each file system
\* call returning), and it ends in exactly one of two ways: a complete summary
\* after the manifest was written, or an explicit top-level error. Termination:
\* while the command has not returned it has a step to take, and each of its
\* steps lowers StepsLeft, which is never negative.
C10_TerminatesWithOutcome ==
  /\ []Outcome
  /\ [](StepsLeft >= 0 /\ (~Ended => ENABLED Run))
  /\ [][Run => StepsLeft' < StepsLeft]_vars
  /\ [][Ended => UNCHANGED vars]_vars

\* a run that returned a summary and a manifest after processing three entries
C10_Witness ==
  /\ pc = "done" /\ result.kind = "ok" /\ manifest_file.written
  /\ Len(manifest_file.rows) = 3 /\ RenamePolicy
  /\ \E k \in 1..3 : manifest_file.rows[k].dest.num > 0

(* ---------------------------------- C11 -------------------------------- *)

\* C11 as stated: in every emitted event percent lies in 0..100, and percent
\* is 0 whenever the event's bytes_total is 0, the terminal event included.
C11_AsStated ==
  \A k \in 1..Len(events) :
    /\ events[k].percent \in 0..100
    /\ events[k].bytes_total = 0 => events[k].percent = 0

\* C11, as far as the code goes: percent lies in 0..100 in every event, and it
\* is 0 whenever bytes_total is 0 except in the terminal `done` event, whose
\* percent is 100 whatever the totals.
C11_PercentInRange ==
  \A k \in 1..Len(events) :
    /\ events[k].percent \in 0..100
    /\ events[k].phase = "done" => events[k].percent = 100
    /\ (events[k].bytes_total = 0 /\ events[k].phase # "done") => events[k].percent = 0

\* a run whose scan found nothing was cancelled: all its events, the terminal
\* `cancelled` one included, carry bytes_total 0 and percent 0
C11_Witness ==
  /\ pc = "done" /\ total_bytes = 0
  /\ LastEvent.phase = "cancelled" /\ LastEvent.percent = 0
  /\ Len(events) = 3

(* ---------------------------------- C12 -------------------------------- *)

\* the loop over the entries is over: every entry was taken up, or it was left
\* on cancellation
LoopOver == pc = "manifest" /\ (i = Len(entries) \/ brk # "none")

\* C12: manifest.json is written once: by the one step that follows the loop
\* over the entries, with exactly the rows accumulated in memory, before the
\* terminal event; a run that returns its summary has written it; and the rows
\* in memory only grow at the end (no row is changed or removed).
C12_ManifestWrittenOnce ==
  [][/\ (manifest_file' # manifest_file) =>
          /\ ~manifest_file.written /\ LoopOver
          /\ manifest_file' = [written |-> TRUE, rows |-> manifest]
          /\ manifest' = manifest /\ events' = events /\ pc' = "final"
     /\ manifest_file.written =>
          /\ manifest' = manifest /\ fs' = fs /\ i' = i
          /\ pc \in {"final", "done"}
     /\ (pc' = "done" /\ pc # "done") =>
          /\ manifest_file.written /\ manifest_file.rows = manifest
          /\ Len(events') = Len(events) + 1
          /\ events'[Len(events')].phase \in {"done", "cancelled"}
     /\ (manifest' # manifest) =>
          /\ Len(manifest') = Len(manifest) + 1
          /\ SubSeq(manifest', 1, Len(manifest)) = manifest]_vars

\* the loop was left on a cancellation during the second entry's copy, and the
\* two rows were written before the terminal event
C12_Witness ==
  /\ pc = "done" /\ brk = "during"
  /\ manifest_file.written /\ Len(manifest_file.rows) = 2
  /\ manifest_file.rows[2].status = "cancelled"
  /\ LastEvent.phase = "cancelled"

(* ---------------------------------- C13 -------------------------------- *)

\* positions of the events of one phase about the k-th entry
EventsOf(k, phase) ==
  { n \in 1..Len(events) : events[n].phase = phase /\ events[n].current_file = k }

\* the start-of-file and end-of-file events of the k-th entry
StartOf(k) ==
  { n \in EventsOf(k, "copying") : events[n].current_path = manifest[k].source }
EndOf(k) == { n \in EventsOf(k, "copying") : events[n].current_path = NoPath }

\* C13: the events of a run that returned its summary: one `scanning` event,
\* the first; then `copying`, `verifying` and `cancelled` events only, up to
\* the last event, whose phase is `done` or `cancelled`; every entry copied to
\* completion has a start-of-file `copying` event before an end-of-file one; a
\* `verifying` event occurs only under sha256, once per entry, between the
\* entry's start-of-file and end-of-file events, and only for an entry whose
\* copy succeeded.
C13_PhaseOrder ==
  pc = "done" =>
    /\ Len(events) >= 3
    /\ events[1].phase = "scanning"
    /\ \A n \in 2..(Len(events) - 1) :
         events[n].phase \in {"copying", "verifying", "cancelled"}
    /\ LastEvent.phase \in {"done", "cancelled"}
    /\ \A k \in Rows("copied") \cup Rows("moved") :
         \E s \in StartOf(k), t \in EndOf(k) : s < t
    /\ \A n \in 1..Len(events) :
         events[n].phase = "verifying" =>
           LET k == events[n].current_file
           IN /\ verify_mode = "sha256"
              /\ k \in 1..Len(manifest)
              /\ EventsOf(k, "verifying") = {n}
              /\ manifest[k].status \in {"copied", "moved", "error"}
              /\ manifest[k].error \notin CopyErrors
              /\ \E s \in StartOf(k), t \in EndOf(k) : s < n /\ n < t

\* a sha256 run that copied and verified two files and ended `done`
C13_Witness ==
  /\ pc = "done" /\ verify_mode = "sha256"
  /\ Cardinality(Rows("copied")) = 2
  /\ EventsOf(1, "verifying") # {} /\ EventsOf(2, "verifying") # {}
  /\ LastEvent.phase = "done"

(* ---------------------------------- C14 -------------------------------- *)

\* the report preflight_scan returned
Report == preflight.summary[1]

\* preflight_scan returned a report although the free-space query failed
QueryFailed ==
  pc = "preflighted" /\ preflight.kind = "ok" /\ mount.kind = "spawn error"

\* C14 as stated: when the query for the available space fails, the report
\* has available space zero and will_fit = false, whatever was scanned.
C14_AsStated ==
  QueryFailed => (Report.dest_avail_bytes = 0 /\ ~Report.will_fit)

\* C14, as far as the code goes: when the query fails the report has available
\* space zero, and will_fit is false exactly when there is at least one byte to
\* transfer.
C14_QueryFailureIsZero ==
  QueryFailed =>
    /\ Report.dest_avail_bytes = 0
    /\ Report.will_fit <=> Report.total_bytes = 0

\* the query failed for a queue of three files with bytes to transfer: the
\* report says it will not fit
C14_Witness ==
  /\ QueryFailed
  /\ Report.total_files = 3 /\ Report.total_bytes > 0
  /\ ~Report.will_fit

(* ---------------------------------- C15 -------------------------------- *)

\* the flag was set during the run and the command has not seen it yet
CancelPending == cancel /\ pc \notin {"invoke", "manifest", "final", "done", "failed"}

\* this step verifies the finished copy (size or sha256)
Verifies == pc = "verify" /\ verify_mode # "none" /\ pc' \in {"cleanup", "failed"}

\* C15 as stated: once the flag is set during a run, the command passes no
\* further poll (it starts no new entry and no new turn of the chunk loop, so
\* at most the chunk in flight is written), runs no verification and deletes
\* no source before it stops processing entries.
C15_AsStated ==
  [][CancelPending =>
       /\ ~(pc = "loop" /\ pc' = "entry")
       /\ ~(pc = "chunk" /\ pc' = "read")
       /\ ~Verifies
       /\ Deleted = {}]_vars

\* C15, as far as the code goes: with the flag set, the poll before an entry
\* and the poll of the chunk loop both leave the loop without touching a file,
\* so no new entry is started and at most the chunk in flight is written.
C15_CancelStopsAtNextPoll ==
  [][CancelPending =>
       /\ (pc = "loop" /\ i < Len(entries) /\ pc' # pc) =>
            (pc' = "manifest" /\ brk' = "before" /\ fs' = fs)
       /\ (pc = "chunk" /\ pc' # pc) =>
            (pc' = "manifest" /\ brk' = "during" /\ fs' = fs)
       /\ (off' > off) => (pc = "read" /\ pc' = "chunk" /\ off' = off + 1)]_vars

\* the flag is set and the chunk loop is at its poll, one chunk of two written
C15_Witness ==
  /\ CancelPending /\ pc = "chunk"
  /\ off = 1 /\ FileLen(fs, Ent.src) = 2 /\ FileLen(fs, dst) = 1

(* ---------------------------------- C16 -------------------------------- *)

\* this step reads the metadata of the entry's source and the read fails: the
\* call itself fails, or the file is gone
EntryMetadataFails ==
  pc = "entry" /\ pc' # pc /\ (faults' > faults \/ ~Exists(fs, Ent.src))

\* C16: a failed read of an entry's source metadata ends the whole run with an
\* error: no row is recorded for the entry, no counter moves, manifest.json is
\* not written, no summary is returned, and the files stay as the entries
\* before left them; nothing happens after the return.
C16_MetadataFailureIsFatal ==
  [][/\ EntryMetadataFails =>
          /\ pc' = "failed" /\ result' = Err("metadata error")
          /\ manifest' = manifest /\ counters' = counters
          /\ ~manifest_file.written /\ manifest_file' = manifest_file
          /\ fs' = fs /\ events' = events
     /\ pc = "failed" => UNCHANGED vars]_vars

\* a move-mode run over the same file picked twice: the first entry moved it,
\* the second could not read it, and the run ended with the error, the copy of
\* the first entry in place and no manifest.json
C16_Witness ==
  /\ pc = "failed" /\ result = Err("metadata error")
  /\ copy_mode = "move" /\ i = 1 /\ Len(manifest) = 1
  /\ manifest[1].status = "moved"
  /\ ~Exists(fs, manifest[1].source) /\ Exists(fs, manifest[1].dest)
  /\ entries[2].src = manifest[1].source
  /\ ~manifest_file.written /\ faults = 0

(* ---------------------------------- C17 -------------------------------- *)

\* C17: entries are processed one at a time in scan order: every event about a
\* file names the entry at the event's current_file position of the scan, and
\* from one event of the run to the next bytes_done, percent and current_file
\* never decrease.
C17_ProgressMonotonic ==
  /\ \A n \in 1..Len(events) :
       events[n].current_path \in SrcPaths =>
         events[n].current_path = entries[events[n].current_file].src
  /\ \A n \in 1..(Len(events) - 1) :
       /\ events[n].bytes_done <= events[n + 1].bytes_done
       /\ events[n].percent <= events[n + 1].percent
       /\ events[n].current_file <= events[n + 1].current_file

\* a finished run over two entries whose events went from 0 through a value in
\* between (a throttled event of the chunk loop) to 100
C17_Witness ==
  /\ pc = "done" /\ total_files = 2 /\ LastEvent.percent = 100
  /\ LastEvent.bytes_done = total_bytes /\ LastEvent.current_file = 2
  /\ \E n \in 1..Len(events) : events[n].percent \notin {0, 100}
  /\ \E n \in 1..Len(events) : events[n].current_file = 1

(* ---------------------------------- C18 -------------------------------- *)

\* C18: at every point of the run the manifest in memory has at most one row
\* per scanned entry, in scan order: row j carries the source of the j-th
\* entry and a destination derived from it, and the rows cover the entries the
\* loop is past, plus the entry in flight when that one was cancelled.
C18_ManifestIsScanPrefix ==
  /\ Len(manifest) <= Len(entries)
  /\ Len(manifest) \in {i, i + 1}
  /\ Len(manifest) = i + 1 => (brk = "during" /\ manifest[i + 1].status = "cancelled")
  /\ \A j \in 1..Len(manifest) :
       /\ manifest[j].source = entries[j].src
       /\ manifest[j].dest \in { Candidate(dst_for(entries[j]), n) : n \in 0..RenameLimit }

\* three rows for three scanned entries (a loose file, then the two files of a
\* folder), in scan order
C18_Witness ==
  /\ pc = "done" /\ Len(entries) = 3 /\ Len(manifest) = 3
  /\ entries[1].src = SrcD2X /\ manifest[1].source = SrcD2X
  /\ manifest[2].source = SrcD1X /\ manifest[3].source = SrcD1Y

(* ---------------------------------- C19 -------------------------------- *)

\* the destinations start_transfer computes (no suffix yet)
BaseDsts == { d \in DstPaths : d.num = 0 }

\* the suffixes of the search window whose candidate does not exist
FreeSuffixes(dest) ==
  { n \in 1..RenameLimit : ~Exists(fs, Candidate(dest, n)) }

\* C19: for every destination and every state of the file system the runs
\* reach, unique_dest_path returns the destination itself when it does not
\* exist; otherwise the candidate "<stem> (N)<.ext>" with the lowest N of the
\* window whose path does not exist; and the destination itself when every
\* candidate of the window exists.
C19_LowestFreeCandidate ==
  \A dest \in BaseDsts :
    LET r == unique_dest_path(fs, dest)
    IN /\ ~Exists(fs, dest) => r = dest
       /\ (Exists(fs, dest) /\ FreeSuffixes(dest) = {}) => r = dest
       /\ (Exists(fs, dest) /\ FreeSuffixes(dest) # {}) =>
            /\ r = Candidate(dest, r.num)
            /\ r.num \in FreeSuffixes(dest)
            /\ \A n \in FreeSuffixes(dest) : r.num <= n

\* the second entry of a run collided with the copy the first entry made and
\* was given suffix 1 although suffix 2 was free as well
C19_Witness ==
  /\ pc = "open" /\ RenamePolicy /\ i = 1
  /\ dst = Candidate(dst_for(Ent), 1)
  /\ dst = unique_dest_path(fs, dst_for(Ent))
  /\ Exists(fs, dst_for(Ent))
  /\ FreeSuffixes(dst_for(Ent)) = 1..RenameLimit

(* ---------------------------------- C20 -------------------------------- *)

\* both pointer files name the session directory of this run
PointersAtSession == layout.latest = "session" /\ layout.day_latest = "session"

\* the run is past its setup
PassedSetup ==
  pc \in {"loop", "entry", "open", "chunk", "read", "verify", "cleanup", "record",
          "manifest", "final", "done"}

\* what holds of the layout whether the setup fails or not: a run past its
\* setup has both pointers at its session directory, whatever it copies later;
\* only the setup touches the layout; no file is copied before the pointers
\* are written; README.txt is written only when absent.
LayoutRules ==
  /\ [](PassedSetup => PointersAtSession)
  /\ [][/\ pc # "setup" => layout' = layout
        /\ (pc = "setup" /\ pc' = "loop") =>
             (layout'.latest = "session" /\ layout'.day_latest = "session")
        /\ fs' # fs => PointersAtSession
        /\ layout'.readme # layout.readme =>
             (layout.readme = "absent" /\ layout'.readme = "static")]_vars

\* C20 as stated: the pointers name the most recently started run that passed
\* setup, so a run whose setup fails leaves both as the earlier runs left them;
\* together with the rules above.
C20_AsStated ==
  /\ LayoutRules
  /\ [][(pc = "setup" /\ pc' = "failed") =>
          (layout'.latest = layout.latest /\ layout'.day_latest = layout.day_latest)]_vars

\* C20: the rules above, and a run whose setup fails leaves the day's pointer
\* as it was, and the top pointer as well unless the failure is that of the
\* day's pointer write, by which time the top pointer names the failed run's
\* session directory.
C20_PointersFollowSetup ==
  /\ LayoutRules
  /\ [][(pc = "setup" /\ pc' = "failed") =>
          /\ layout'.day_latest = layout.day_latest
          /\ IF result'.error = "day latest write error"
             THEN layout'.latest = "session"
             ELSE layout'.latest = layout.latest]_vars

\* a run over nothing on a mount an earlier run had used: it copied nothing,
\* both pointers name its session directory, the edited README is as it was
C20_Witness ==
  /\ pc = "done" /\ total_files = 0 /\ manifest_file.rows = <<>>
  /\ PointersAtSession /\ layout.readme = "edited"

(* ---------------------------------- C21 -------------------------------- *)

\* the destination of row k holds the content its source had
KeepsContent(k) ==
  /\ Exists(fs, manifest[k].dest)
  /\ fs[manifest[k].dest].data = SrcData(manifest[k].source)

\* a later entry of the run was copied to the destination of row k
WrittenLater(k) ==
  \E j \in (k + 1)..Len(manifest) :
    manifest[j].dest = manifest[k].dest /\ manifest[j].status # "skipped"

\* C21 as stated: when the run ends, the destination of every `moved` row holds
\* the content of the row's source (no call failing and the medium damaging
\* nothing), under every conflict policy and also when several entries map to
\* the same destination.
C21_AsStated ==
  (Ended /\ faults = 0) => \A k \in Rows("moved") : KeepsContent(k)

\* C21, as far as the code goes: when a run returns its summary, the
\* destination of every `moved` row exists, and it holds the content of the
\* row's source (the medium damaging nothing) unless a later entry of the run
\* was copied to the same destination path.
C21_MovedKeptUnlessOverwritten ==
  pc = "done" =>
    \A k \in Rows("moved") :
      /\ Exists(fs, manifest[k].dest)
      /\ (faults = 0 /\ ~WrittenLater(k)) => KeepsContent(k)

\* two loose files of the same name from different folders were moved under
\* the rename policy: the second got suffix 1, and both destinations hold
\* their source's content
C21_Witness ==
  /\ pc = "done" /\ copy_mode = "move" /\ RenamePolicy
  /\ Rows("moved") = {1, 2}
  /\ manifest[1].source = SrcD1X /\ manifest[2].source = SrcD2X
  /\ manifest[1].dest.num = 0 /\ manifest[2].dest = Candidate(manifest[1].dest, 1)
  /\ KeepsContent(1) /\ KeepsContent(2)

(* ---------------------------------- C22 -------------------------------- *)

\* the run halted early: a scanned entry was left unprocessed, or one was
\* recorded as `cancelled`
HaltedEarly == Len(manifest) < Len(entries) \/ Rows("cancelled") # {}

\* every scanned entry reached one of the four final statuses
AllSettled ==
  /\ Len(manifest) = Len(entries)
  /\ \A k \in 1..Len(manifest) :
       manifest[k].status \in {"copied", "moved", "skipped", "error"}

\* C22 as stated: the terminal event of a run says `cancelled` exactly when
\* the run halted early; a run in which every scanned entry reached a status
\* of copied, moved, skipped or error ends with `done`, whenever the flag was
\* set.
C22_AsStated ==
  pc = "done" =>
    /\ LastEvent.phase = "cancelled" <=> HaltedEarly
    /\ AllSettled => LastEvent.phase = "done"

\* C22, as far as the code goes: the terminal event says `cancelled` exactly
\* when the flag is set at the moment the event is built, and `done`
\* otherwise; a run that halted early always ends with `cancelled`, and a run
\* that ends with `done` has settled every scanned entry.
C22_PhaseFollowsFlag ==
  pc = "done" =>
    /\ LastEvent.phase = (IF cancel THEN "cancelled" ELSE "done")
    /\ HaltedEarly => LastEvent.phase = "cancelled"
    /\ LastEvent.phase = "done" => AllSettled

\* the flag was set after the first of two entries was finished: the second
\* was not started, and the terminal event says `cancelled`
C22_Witness ==
  /\ pc = "done" /\ Len(entries) = 2 /\ Len(manifest) = 1
  /\ manifest[1].status = "copied" /\ brk = "before"
  /\ LastEvent.phase = "cancelled"

(* ---------------------------------- C23 -------------------------------- *)

\* a second start_transfer command, invoked while this run is in progress: the
\* command is async, so nothing keeps it from running beside the first, and
\* its first statement stores false into the one process-wide flag. Its own
\* run works in a session directory of its own and only reads the flag.
start_transfer_again ==
  /\ pc \notin {"invoke", "done", "failed"}
  /\ cancel' = FALSE
  /\ UNCHANGED <<args, space, fs, layout, pc, scan, manifest, counters, bytes_done, i,
                 locals, brk, events, faults, emits, manifest_file, result>>

RaceNext == Next \/ start_transfer_again

\* one run of start_transfer, cancel_transfer and further start_transfer
\* commands arriving at any time
RaceSpec == Init /\ [][RaceNext]_vars

\* the run is in progress: the command has reset the flag and has not returned
InProgress == pc \notin {"invoke", "done", "failed"}

\* the step passes the poll that precedes an entry
PassesPoll == pc = "loop" /\ pc' = "entry"

\* C23 as stated: a cancel request is never lost. Once cancel_transfer has set
\* the flag during a run, under any interleaving of the two commands the
\* request stays pending until the run ends, no further entry passes the poll,
\* and a run that returns its summary ends with terminal phase `cancelled`.
C23_AsStated ==
  [][(InProgress /\ cancel) =>
       /\ cancel'
       /\ ~PassesPoll
       /\ (pc' = "done" => LastEvent'.phase = "cancelled")]_vars

\* C23, as far as the code goes: the engine only reads the flag (the flag
\* changes only in steps of the commands, which leave the run where it is, or
\* in the reset that opens the run), and the terminal phase is what the flag
\* says when the terminal event is built.
C23_EngineOnlyReadsFlag ==
  [][/\ (cancel' # cancel) => (pc = "invoke" \/ UNCHANGED <<pc, fs, events, manifest>>)
     /\ (pc = "final" /\ pc' = "done") => (LastEvent'.phase = final_phase(cancel))]_vars

\* a cancel request stopped the loop before the second entry, a second
\* start_transfer command then reset the flag, and the run ended with terminal
\* phase `done` with an entry left unprocessed
C23_Witness ==
  /\ pc = "done" /\ brk = "before" /\ ~cancel
  /\ Len(manifest) = 1 /\ Len(entries) = 2
  /\ LastEvent.phase = "done"

====
